---------------------------- MODULE Spec2Model ----------------------------
(***************************************************************************)
(* The transaction record store of csv_transactions.py: the field          *)
(* validator, the whole-file CSV store with its write-temp-then-replace    *)
(* discipline, the create / read / update / delete engine on top, and the  *)
(* category registry with its menu and window handlers.                    *)
(*                                                                         *)
(* Text is a sequence of one-character strings, so that strip() and        *)
(* lower() are computed.  An amount is a record that keeps apart the       *)
(* Python type of the value (str or float) and the digits of its text, so  *)
(* that "-50.0" and "-50.00" are different cells of the file.  A uuid4 is  *)
(* a fresh natural number.  Every file-system call is one step.            *)
(***************************************************************************)
EXTENDS Integers, Sequences, FiniteSets, TLC

\* ------------------------------------------------------------- bounds
\* most uuids create mints
MaxIds == 2
\* last tick of the wall clock
MaxNow == 2

Procs == {1, 2}
\* the process of a program run alone
Single == {1}

\* ------------------------------------------------------------- text
None == <<"<None>">>
Empty == <<>>

IsSpace(c) == c = " "

RECURSIVE lstrip(_)
lstrip(s) == IF s # <<>> /\ IsSpace(Head(s)) THEN lstrip(Tail(s)) ELSE s

RECURSIVE rstrip(_)
rstrip(s) ==
    IF s # <<>> /\ IsSpace(s[Len(s)]) THEN rstrip(SubSeq(s, 1, Len(s) - 1)) ELSE s

\* str.strip()
strip(s) == rstrip(lstrip(s))

Upper == <<"A", "B", "C", "D", "E", "F", "G", "H", "I", "J", "K", "L", "M", "N", "O", "P", "Q", "R", "S", "T", "U", "V", "W", "X", "Y", "Z">>
Lower == <<"a", "b", "c", "d", "e", "f", "g", "h", "i", "j", "k", "l", "m", "n", "o", "p", "q", "r", "s", "t", "u", "v", "w", "x", "y", "z">>

LowerOf ==
    [c \in {Upper[i] : i \in 1..Len(Upper)} |->
        Lower[CHOOSE i \in 1..Len(Upper) : Upper[i] = c]]

LowerChar(c) == IF c \in DOMAIN LowerOf THEN LowerOf[c] ELSE c

\* str.lower()
lower(s) == [i \in 1..Len(s) |-> LowerChar(s[i])]

\* (x or "")
OrEmpty(s) == IF s = None THEN Empty ELSE s

Other == <<"O", "t", "h", "e", "r">>
income == <<"i", "n", "c", "o", "m", "e">>
expense == <<"e", "x", "p", "e", "n", "s", "e">>

\* ------------------------------------------------------------- datetime
\* A datetime text is its shape and the instant it names.  Shapes: "iso"
\* (%Y-%m-%dT%H:%M:%S), "space" (%Y-%m-%d %H:%M:%S), "date" (%Y-%m-%d, which
\* names midnight, tick 0 of its day), "bad" (no candidate format parses it).
\* The two minute-only formats behave as their seconds formats with :00.
DtText(f, t) == [fmt |-> f, t |-> t]
NoneDt == DtText("none", 0)

parse_and_normalize_datetime(dt) ==
    IF dt.fmt \in {"iso", "space", "date"}
    THEN [norm |-> DtText("iso", dt.t), err |-> FALSE]
    ELSE [norm |-> NoneDt, err |-> TRUE]

\* ------------------------------------------------------------- amounts
\* k: the Python type of the value ("str", "float", "none")
\* t: what it denotes: "num", "NaN" (Decimal's spelling), "nan" (float's
\*    spelling), "inf", "bad" (not a number at all)
\* neg, m: sign and magnitude in thousandths;  d: fractional digits of the text
Amt(k, t, neg, m, d) == [k |-> k, t |-> t, neg |-> neg, m |-> m, d |-> d]
NoneAmt == Amt("none", "bad", FALSE, 0, 0)
Dec(neg, m, d) == Amt("str", "num", neg, m, d)

\* Decimal.quantize(Decimal("0.01")) under the default context, whose rounding
\* is ROUND_HALF_EVEN: thousandths to hundredths
QuantizeCents(m) ==
    LET q == m \div 10
        r == m % 10
    IN  IF r > 5 \/ (r = 5 /\ q % 2 = 1) THEN q + 1 ELSE q

validate_amount(a) ==
    IF a.t = "bad"
    THEN [norm |-> NoneAmt, err |-> TRUE, raised |-> FALSE]
    ELSE IF a.t = "inf"
    THEN [norm |-> NoneAmt, err |-> FALSE, raised |-> TRUE]
    ELSE IF a.t \in {"NaN", "nan"}
    THEN [norm |-> Amt("str", "NaN", a.neg, 0, 0), err |-> FALSE, raised |-> FALSE]
    ELSE [norm |-> Dec(a.neg, QuantizeCents(a.m) * 10, 2),
          err |-> FALSE, raised |-> FALSE]

\* float(text)
ToFloat(a) ==
    IF a.t = "num" THEN Amt("float", "num", a.neg, a.m, 0)
    ELSE Amt("float", "nan", a.neg, 0, 0)

FloatPos(x) == x.t = "num" /\ ~x.neg /\ x.m > 0
FloatNeg(x) == x.t = "num" /\ x.neg /\ x.m > 0
FloatNegate(x) == [x EXCEPT !.neg = ~x.neg]

\* repr(float), which is what the csv writer puts in the cell: the shortest
\* digits that round-trip, never fewer than one fractional digit
FloatRepr(x) ==
    IF x.t = "num"
    THEN Dec(x.neg, x.m, IF (x.m \div 10) % 10 = 0 THEN 1 ELSE 2)
    ELSE Amt("str", "nan", FALSE, 0, 0)

\* f"{x:.2f}" of a float
FloatFormat2(x) ==
    IF x.t = "num" THEN Dec(x.neg, x.m, 2) ELSE Amt("str", "nan", FALSE, 0, 0)

\* str(value) as the csv writer applies it to a cell
CsvAmount(a) == IF a.k = "float" THEN FloatRepr(a) ELSE a

\* ------------------------------------------------------------- validation
\* allowed_categories: None (the default) or an iterable of names
NotGiven == [given |-> FALSE, names |-> {}]
Allowed(names) == [given |-> TRUE, names |-> names]

E_DATETIME == "Invalid datetime format"
E_FUTURE == "Datetime cannot be in the future."
E_CATEGORY == "Category is required."
E_ALLOWED == "Category is not in the allowed set"
E_AMOUNT == "Amount is not a valid number"
E_TYPE == "Type is required."
E_DESCRIPTION == "Description is required."

\* a validator that looks the name up among the allowed names as they are given
validate_transaction_unstripped(datetime_str, category, amount, type, description, allowed, clock) ==
    LET dt == parse_and_normalize_datetime(datetime_str)
        cat == strip(OrEmpty(category))
        amt == validate_amount(amount)
        typ == strip(OrEmpty(type))
        desc == strip(OrEmpty(description))
        errors ==
            (IF dt.err THEN {E_DATETIME} ELSE {})
            \cup (IF ~dt.err /\ dt.norm.t > clock THEN {E_FUTURE} ELSE {})
            \cup (IF cat = Empty THEN {E_CATEGORY} ELSE {})
            \cup (IF cat # Empty /\ allowed.given
                      /\ cat \notin allowed.names
                  THEN {E_ALLOWED} ELSE {})
            \cup (IF amt.err THEN {E_AMOUNT} ELSE {})
            \cup (IF typ = Empty THEN {E_TYPE} ELSE {})
            \cup (IF desc = Empty THEN {E_DESCRIPTION} ELSE {})
    IN  [ok |-> errors = {} /\ ~amt.raised,
         raised |-> amt.raised,
         errors |-> errors,
         normalized |-> [datetime |-> dt.norm, category |-> cat,
                         amount |-> amt.norm, type |-> typ,
                         description |-> desc]]

\* a validator that does not compare the datetime with the clock
validate_transaction_any_time(datetime_str, category, amount, type, description, allowed, clock) ==
    LET dt == parse_and_normalize_datetime(datetime_str)
        cat == strip(OrEmpty(category))
        amt == validate_amount(amount)
        typ == strip(OrEmpty(type))
        desc == strip(OrEmpty(description))
        errors ==
            (IF dt.err THEN {E_DATETIME} ELSE {})
            \cup {}
            \cup (IF cat = Empty THEN {E_CATEGORY} ELSE {})
            \cup (IF cat # Empty /\ allowed.given
                      /\ cat \notin {strip(c) : c \in allowed.names}
                  THEN {E_ALLOWED} ELSE {})
            \cup (IF amt.err THEN {E_AMOUNT} ELSE {})
            \cup (IF typ = Empty THEN {E_TYPE} ELSE {})
            \cup (IF desc = Empty THEN {E_DESCRIPTION} ELSE {})
    IN  [ok |-> errors = {} /\ ~amt.raised,
         raised |-> amt.raised,
         errors |-> errors,
         normalized |-> [datetime |-> dt.norm, category |-> cat,
                         amount |-> amt.norm, type |-> typ,
                         description |-> desc]]

\* validate_transaction(...) with disallow_future left at its default, True;
\* clock is datetime.now().  raised: an exception left _validate_amount.
validate_transaction(datetime_str, category, amount, type, description, allowed, clock) ==
    LET dt == parse_and_normalize_datetime(datetime_str)
        cat == strip(OrEmpty(category))
        amt == validate_amount(amount)
        typ == strip(OrEmpty(type))
        desc == strip(OrEmpty(description))
        errors ==
            (IF dt.err THEN {E_DATETIME} ELSE {})
            \cup (IF ~dt.err /\ dt.norm.t > clock THEN {E_FUTURE} ELSE {})
            \cup (IF cat = Empty THEN {E_CATEGORY} ELSE {})
            \cup (IF cat # Empty /\ allowed.given
                      /\ cat \notin {strip(c) : c \in allowed.names}
                  THEN {E_ALLOWED} ELSE {})
            \cup (IF amt.err THEN {E_AMOUNT} ELSE {})
            \cup (IF typ = Empty THEN {E_TYPE} ELSE {})
            \cup (IF desc = Empty THEN {E_DESCRIPTION} ELSE {})
    IN  [ok |-> errors = {} /\ ~amt.raised,
         raised |-> amt.raised,
         errors |-> errors,
         normalized |-> [datetime |-> dt.norm, category |-> cat,
                         amount |-> amt.norm, type |-> typ,
                         description |-> desc]]

\* ------------------------------------------------------------- records
\* class Transaction; the id is a uuid string, here the number of the uuid
Transaction(id, datetime, category, amount, type, description) ==
    [id |-> id, datetime |-> datetime, category |-> category,
     amount |-> amount, type |-> type, description |-> description]
NoTx == Transaction(0, NoneDt, None, NoneAmt, None, None)

\* create_transaction, lines 328-346: the type lowered, the sign of the amount
\* set by the type, the record built around the new id
CreateRecord(tx_id, normalized) ==
    LET typ == lower(normalized.type)
        x == ToFloat(normalized.amount)
        a1 == IF typ = expense /\ FloatPos(x) THEN FloatNegate(x)
              ELSE normalized.amount
        x1 == ToFloat(a1)
        a2 == IF typ = income /\ FloatNeg(x1) THEN FloatNegate(x1) ELSE a1
    IN  Transaction(tx_id, normalized.datetime, normalized.category, a2, typ,
                    normalized.description)

\* update_transaction, lines 653-672
UpdateRecord(tx, normalized) ==
    LET norm_type == lower(normalized.type)
        amt_val == ToFloat(normalized.amount)
        signed == IF norm_type = expense /\ FloatPos(amt_val) THEN FloatNegate(amt_val)
                  ELSE IF norm_type = income /\ FloatNeg(amt_val) THEN FloatNegate(amt_val)
                  ELSE amt_val
    IN  Transaction(tx.id, normalized.datetime, normalized.category,
                    FloatFormat2(signed), norm_type, normalized.description)

\* update_transaction, lines 635-639: a field given as None keeps the old value
Merge(given, old, none) == IF given # none THEN given ELSE old

\* ------------------------------------------------------------- the CSV file
\* A file on disk: whether it exists, whether its header line is written, and
\* its rows, each a record of cell texts.
File(exists, header, rows) == [exists |-> exists, header |-> header, rows |-> rows]
NoFile == File(FALSE, FALSE, <<>>)
\* open(path, "w"): created or truncated, nothing written yet
Truncated == File(TRUE, FALSE, <<>>)

\* csv.DictWriter.writerow(asdict(t)): every cell is str(value)
CsvRow(t) == [t EXCEPT !.amount = CsvAmount(@)]
CsvRows(txs) == [i \in 1..Len(txs) |-> CsvRow(txs[i])]

\* _read_all, lines 101-108: one Transaction per row, every cell stripped.
\* (The uuid, the normalized datetime and the amount hold no blanks.)
ReadRow(r) ==
    Transaction(r.id, r.datetime, strip(r.category), r.amount, strip(r.type),
                strip(r.description))

\* _read_all, lines 95-110, of an existing file.  csv.DictReader takes the
\* first line as the header; a file without one is empty in every reachable
\* state and yields no row.
read_all(f) ==
    IF f.header THEN [i \in 1..Len(f.rows) |-> ReadRow(f.rows[i])] ELSE <<>>

\* get_transaction, lines 364-367: the first record with the id, or None
RECURSIVE find(_, _)
find(txs, tx_id) ==
    IF txs = <<>> THEN NoTx
    ELSE IF Head(txs).id = tx_id THEN Head(txs)
    ELSE find(Tail(txs), tx_id)

\* update_transaction, line 632: the index of the first record with the id, or 0
IndexOf(txs, tx_id) ==
    IF \E i \in 1..Len(txs) : txs[i].id = tx_id
    THEN CHOOSE i \in 1..Len(txs) :
            txs[i].id = tx_id /\ \A j \in 1..(i - 1) : txs[j].id # tx_id
    ELSE 0

\* a filter that drops the last record, whatever its id
without_last(txs, tx_id) ==
    IF \E i \in 1..Len(txs) : txs[i].id = tx_id THEN SubSeq(txs, 1, Len(txs) - 1) ELSE txs

\* delete_transaction, line 377
RECURSIVE without(_, _)
without(txs, tx_id) ==
    IF txs = <<>> THEN <<>>
    ELSE IF Head(txs).id # tx_id THEN <<Head(txs)>> \o without(Tail(txs), tx_id)
    ELSE without(Tail(txs), tx_id)

\* a uuid generator that hands out the same value again
uuid4_repeats(n) == 1

\* str(uuid.uuid4()), line 338: the n-th uuid drawn is a value never drawn before
uuid4(n) == n

\* ------------------------------------------------------------- inputs
Fields(datetime, category, amount, type, description) ==
    [datetime |-> datetime, category |-> category, amount |-> amount,
     type |-> type, description |-> description]
NoFields == Fields(NoneDt, None, NoneAmt, None, None)

Rent == <<"R", "e", "n", "t">>
Tea == <<"t", "e", "a">>

\* "50.00", "-50.00", "12.345", "-NaN", "Infinity", "abc"
A50 == Dec(FALSE, 50000, 2)
AM50 == Dec(TRUE, 50000, 2)
A12345 == Dec(FALSE, 12345, 3)
ANaN == Amt("str", "NaN", TRUE, 0, 0)
AInf == Amt("str", "inf", FALSE, 0, 0)
AAbc == Amt("str", "bad", FALSE, 0, 0)

Base == Fields(DtText("space", 0), Rent, A50, income, Tea)

\* the field sets create is called with: a valid income, then a few fields
\* changed at a time
CreateFields ==
    { Base,
      [Base EXCEPT !.type = expense],
      [Base EXCEPT !.datetime = DtText("date", 0),
                   !.category = <<" ", "O", "t", "h", "e", "r", " ">>,
                   !.amount = A12345,
                   !.type = <<" ", "E", "x", "p", "e", "n", "s", "e">>],
      [Base EXCEPT !.amount = ANaN],
      [Base EXCEPT !.amount = AInf],
      [Base EXCEPT !.amount = AAbc],
      [Base EXCEPT !.datetime = DtText("iso", MaxNow + 1)],
      [Base EXCEPT !.datetime = DtText("bad", 0)],
      [Base EXCEPT !.category = <<" ">>],
      [Base EXCEPT !.type = Empty],
      [Base EXCEPT !.description = <<" ", " ">>] }

\* the allowed_categories arguments
AllowedInputs == { NotGiven, Allowed({Other}) }

\* the partial field sets update is called with
UpdateFields ==
    { NoFields,
      [NoFields EXCEPT !.amount = AM50],
      [NoFields EXCEPT !.amount = AAbc],
      [NoFields EXCEPT !.amount = AInf],
      [NoFields EXCEPT !.type = expense],
      [NoFields EXCEPT !.datetime = DtText("iso", MaxNow + 1)] }

\* the ids the callers pass: every uuid that can be minted, and 0, a string
\* that is no record's id
IdInputs == 0..MaxIds

\* ------------------------------------------------------------- the categories file
\* A row of categories.csv: a name and a type
Cat(name, type) == [name |-> name, type |-> type]
CatFile(exists, catrows) == [exists |-> exists, rows |-> catrows]
NoCatFile == CatFile(FALSE, <<>>)

LivingExpenses == <<"L", "i", "v", "i", "n", "g", " ", "E", "x", "p", "e", "n", "s", "e", "s">>
FoodAndDining == <<"F", "o", "o", "d", " ", "a", "n", "d", " ", "D", "i", "n", "i", "n", "g">>
PersonalLifestyle == <<"P", "e", "r", "s", "o", "n", "a", "l", " ", "&", " ", "L", "i", "f", "e", "s", "t", "y", "l", "e">>
HealthcareInsurance == <<"H", "e", "a", "l", "t", "h", "c", "a", "r", "e", " ", "&", " ", "I", "n", "s", "u", "r", "a", "n", "c", "e">>
FamilyEducation == <<"F", "a", "m", "i", "l", "y", " ", "&", " ", "E", "d", "u", "c", "a", "t", "i", "o", "n">>
Miscellaneous == <<"M", "i", "s", "c", "e", "l", "l", "a", "n", "e", "o", "u", "s">>
EarnedIncome == <<"E", "a", "r", "n", "e", "d", " ", "I", "n", "c", "o", "m", "e">>
UnearnedIncome == <<"U", "n", "e", "a", "r", "n", "e", "d", " ", "I", "n", "c", "o", "m", "e">>

\* _ensure_categories_csv_exists, lines 121-132
defaults ==
    << Cat(LivingExpenses, expense), Cat(FoodAndDining, expense),
       Cat(PersonalLifestyle, expense), Cat(HealthcareInsurance, expense),
       Cat(FamilyEducation, expense), Cat(Miscellaneous, expense),
       Cat(Other, expense), Cat(EarnedIncome, income),
       Cat(UnearnedIncome, income), Cat(Other, income) >>

\* _read_categories, lines 139-144: the rows with a name and a known type
read_categories(cf) ==
    LET cell(r) == Cat(strip(OrEmpty(r.name)), lower(strip(OrEmpty(r.type))))
        known(r) == r.name # Empty /\ r.type \in {income, expense}
    IN  SelectSeq([i \in 1..Len(cf.rows) |-> cell(cf.rows[i])], known)

\* _write_categories, lines 147-163, when no file-system call fails
write_categories(catrows) == CatFile(TRUE, catrows)

\* names that still hold "rent" once the registry has lost it
all_category_names_stale(cf) ==
    LET cats == read_categories(cf)
    IN  {cats[i].name : i \in 1..Len(cats)} \cup {<<"r", "e", "n", "t">>}

\* _all_category_names, line 172
all_category_names(cf) ==
    LET cats == read_categories(cf) IN {cats[i].name : i \in 1..Len(cats)}

\* what a category handler did: the handler, the row chosen, how it ended
CatOp(op, idx, out) == [op |-> op, idx |-> idx, out |-> out]
NoCatOp == CatOp("none", 0, "none")

\* ------------------------------------------------------------- state
VARIABLES
    file,     \* the canonical transaction file (csv_path)
    tmp,      \* tmp[p]: the temporary file of p's _atomic_write_rows
    pc,       \* pc[p]: where p is in its call
    call,     \* call[p]: the operation p runs and its arguments
    rows,     \* rows[p]: the list of Transaction p holds in memory
    txn,      \* txn[p]: the Transaction p has built
    ret,      \* ret[p]: what the call returned or raised
    pre,      \* pre[p]: the canonical file when the call began (history)
    wpre,     \* wpre[p]: the canonical file when _write_all was called (history)
    nwrites,  \* nwrites[p]: calls of _atomic_write_rows in this call (history)
    nextId,   \* uuids drawn so far, plus one
    now,      \* datetime.now()
    catfile,  \* the categories file (categories_path)
    catop,    \* the last category handler that ran and how it ended (history)
    catpre,   \* the categories file when that handler was entered (history)
    nedits    \* calls of _write_categories so far (history)

\* the category registry and its history
catvars == <<catfile, catop, catpre, nedits>>

vars == <<file, tmp, pc, call, rows, txn, ret, pre, wpre, nwrites, nextId, now, catvars>>

Call(op, tx_id, fields, allowed) ==
    [op |-> op, tx_id |-> tx_id, fields |-> fields, allowed |-> allowed]
NoCall == Call("none", 0, NoFields, NotGiven)

Ret(kind, tx, flag) == [kind |-> kind, tx |-> tx, flag |-> flag]
NoRet == Ret("none", NoTx, FALSE)

Init ==
    /\ file = NoFile
    /\ tmp = [p \in Procs |-> NoFile]
    /\ pc = [p \in Procs |-> "idle"]
    /\ call = [p \in Procs |-> NoCall]
    /\ rows = [p \in Procs |-> <<>>]
    /\ txn = [p \in Procs |-> NoTx]
    /\ ret = [p \in Procs |-> NoRet]
    /\ pre = [p \in Procs |-> NoFile]
    /\ wpre = [p \in Procs |-> NoFile]
    /\ nwrites = [p \in Procs |-> 0]
    /\ nextId = 1
    /\ now = 1
    /\ catfile = NoCatFile
    /\ catop = NoCatOp
    /\ catpre = NoCatFile
    /\ nedits = 0

\* the call ends: p holds the result until the caller takes it
Finish(p, r) ==
    /\ pc' = [pc EXCEPT ![p] = "done"]
    /\ ret' = [ret EXCEPT ![p] = r]

Begin(p, c) ==
    /\ pc[p] = "idle"
    /\ call' = [call EXCEPT ![p] = c]
    /\ pre' = [pre EXCEPT ![p] = file]
    /\ wpre' = [wpre EXCEPT ![p] = NoFile]
    /\ nwrites' = [nwrites EXCEPT ![p] = 0]

\* _write_all(csv_path, txs) is called, line 186
write_all(p) ==
    /\ pc' = [pc EXCEPT ![p] = "w_mkstemp"]
    /\ wpre' = [wpre EXCEPT ![p] = file]

\* ------------------------------------------------------------- the calls
\* create_transaction, lines 317-346: validate, raise on errors, lower the
\* type, sign the amount, draw the id, build the record.  The file is not
\* touched before line 348.
create_transaction(p, fields, allowed) ==
    LET v == validate_transaction(fields.datetime, fields.category, fields.amount,
                                  fields.type, fields.description, allowed, now)
    IN  /\ Begin(p, Call("create", 0, fields, allowed))
        /\ IF v.raised
           THEN /\ Finish(p, Ret("InvalidOperation", NoTx, FALSE))
                /\ UNCHANGED <<txn, nextId>>
           ELSE IF ~v.ok
           THEN /\ Finish(p, Ret("ValueError", NoTx, FALSE))
                /\ UNCHANGED <<txn, nextId>>
           ELSE /\ nextId <= MaxIds
                /\ txn' = [txn EXCEPT ![p] = CreateRecord(uuid4(nextId), v.normalized)]
                /\ nextId' = nextId + 1
                /\ pc' = [pc EXCEPT ![p] = "fs"]
                /\ UNCHANGED ret
        /\ UNCHANGED <<file, tmp, rows, now, catvars>>

\* read_transactions(csv_path) and get_transaction(csv_path, tx_id) are called
read_transactions(p) ==
    /\ Begin(p, Call("read", 0, NoFields, NotGiven))
    /\ pc' = [pc EXCEPT ![p] = "fs"]
    /\ UNCHANGED <<file, tmp, rows, txn, ret, nextId, now, catvars>>

get_transaction(p, tx_id) ==
    /\ Begin(p, Call("get", tx_id, NoFields, NotGiven))
    /\ pc' = [pc EXCEPT ![p] = "fs"]
    /\ UNCHANGED <<file, tmp, rows, txn, ret, nextId, now, catvars>>

\* get_totals(csv_path) is called
get_totals(p) ==
    /\ Begin(p, Call("totals", 0, NoFields, NotGiven))
    /\ pc' = [pc EXCEPT ![p] = "fs"]
    /\ UNCHANGED <<file, tmp, rows, txn, ret, nextId, now, catvars>>

\* delete_transaction(csv_path, tx_id) is called
delete_transaction(p, tx_id) ==
    /\ Begin(p, Call("delete", tx_id, NoFields, NotGiven))
    /\ pc' = [pc EXCEPT ![p] = "fs"]
    /\ UNCHANGED <<file, tmp, rows, txn, ret, nextId, now, catvars>>

\* update_transaction(csv_path, tx_id, ...) is called
update_transaction(p, tx_id, fields, allowed) ==
    /\ Begin(p, Call("update", tx_id, fields, allowed))
    /\ pc' = [pc EXCEPT ![p] = "fs"]
    /\ UNCHANGED <<file, tmp, rows, txn, ret, nextId, now, catvars>>

\* ------------------------------------------------------------- _ensure_csv_exists
\* the file is opened for writing without asking whether it exists
ensure_csv_exists_always(p) ==
    /\ pc[p] = "fs"
    /\ pc' = [pc EXCEPT ![p] = "e_open"]
    /\ UNCHANGED <<file, tmp, call, rows, txn, ret, pre, wpre, nwrites, nextId, now, catvars>>

\* line 62: os.path.exists says no.  (When it says yes the file can never go
\* away again, so that answer is taken together with the read that follows.)
ensure_csv_exists(p) ==
    /\ pc[p] = "fs"
    /\ ~file.exists
    /\ pc' = [pc EXCEPT ![p] = "e_open"]
    /\ UNCHANGED <<file, tmp, call, rows, txn, ret, pre, wpre, nwrites, nextId, now, catvars>>

\* line 63: open(csv_path, "w") creates the file, empty
ensure_open(p) ==
    /\ pc[p] = "e_open"
    /\ file' = Truncated
    /\ pc' = [pc EXCEPT ![p] = "e_header"]
    /\ UNCHANGED <<tmp, call, rows, txn, ret, pre, wpre, nwrites, nextId, now, catvars>>

\* lines 64-65: the header is written and the file closed
ensure_header(p) ==
    /\ pc[p] = "e_header"
    /\ file' = File(TRUE, TRUE, file.rows)
    /\ pc' = [pc EXCEPT ![p] = "fs"]
    /\ UNCHANGED <<tmp, call, rows, txn, ret, pre, wpre, nwrites, nextId, now, catvars>>

\* ------------------------------------------------------------- _read_all and what is done with it
Reads(p, op) == pc[p] = "fs" /\ file.exists /\ call[p].op = op

\* a create that puts the new record first
create_prepends(p) ==
    /\ Reads(p, "create")
    /\ rows' = [rows EXCEPT ![p] = <<txn[p]>> \o read_all(file)]
    /\ write_all(p)
    /\ UNCHANGED <<file, tmp, call, txn, ret, pre, nwrites, nextId, now, catvars>>

\* create_transaction, lines 350-351: rows = _read_all(); rows.append(tx)
create_append(p) ==
    /\ Reads(p, "create")
    /\ rows' = [rows EXCEPT ![p] = Append(read_all(file), txn[p])]
    /\ write_all(p)
    /\ UNCHANGED <<file, tmp, call, txn, ret, pre, nwrites, nextId, now, catvars>>

\* read_transactions, line 358
read_return(p) ==
    /\ Reads(p, "read")
    /\ rows' = [rows EXCEPT ![p] = read_all(file)]
    /\ Finish(p, Ret("ok", NoTx, FALSE))
    /\ UNCHANGED <<file, tmp, call, txn, pre, wpre, nwrites, nextId, now, catvars>>

\* get_totals, lines 395-415: the two sums in thousandths, each infinite once an
\* infinity was added to it.  Decimal(tx.amount) of a text that is no number
\* is skipped (line 402); of a NaN it succeeds, and the comparison amt > 0 of
\* line 404 then raises decimal.InvalidOperation, as does the difference of
\* two infinities at line 409.
Totals(raised, inc, exp, inf_inc, inf_exp) ==
    [raised |-> raised, income |-> inc, expenses |-> exp,
     inf_income |-> inf_inc, inf_expenses |-> inf_exp]

RECURSIVE totals_loop(_, _)
totals_loop(txs, acc) ==
    IF txs = <<>> \/ acc.raised THEN acc
    ELSE LET amt == Head(txs).amount
             next == IF amt.t = "bad" THEN acc
                     ELSE IF amt.t \in {"NaN", "nan"} THEN [acc EXCEPT !.raised = TRUE]
                     ELSE IF amt.t = "inf"
                     THEN IF amt.neg THEN [acc EXCEPT !.inf_expenses = TRUE]
                          ELSE [acc EXCEPT !.inf_income = TRUE]
                     ELSE IF amt.m = 0 THEN acc
                     ELSE IF amt.neg THEN [acc EXCEPT !.expenses = @ + amt.m]
                     ELSE [acc EXCEPT !.income = @ + amt.m]
         IN  totals_loop(Tail(txs), next)

totals(txs) ==
    LET sums == totals_loop(txs, Totals(FALSE, 0, 0, FALSE, FALSE))
    IN  [raised |-> sums.raised \/ (sums.inf_income /\ sums.inf_expenses),
         income |-> sums.income, expenses |-> sums.expenses,
         net |-> sums.income - sums.expenses,
         inf_income |-> sums.inf_income, inf_expenses |-> sums.inf_expenses]

\* get_totals, line 394 and what follows it
totals_return(p) ==
    /\ Reads(p, "totals")
    /\ rows' = [rows EXCEPT ![p] = read_all(file)]
    /\ IF totals(read_all(file)).raised
       THEN Finish(p, Ret("InvalidOperation", NoTx, FALSE))
       ELSE Finish(p, Ret("ok", NoTx, FALSE))
    /\ UNCHANGED <<file, tmp, call, txn, pre, wpre, nwrites, nextId, now, catvars>>

\* get_transaction, lines 364-367
get_return(p) ==
    /\ Reads(p, "get")
    /\ Finish(p, Ret("ok", find(read_all(file), call[p].tx_id), FALSE))
    /\ UNCHANGED <<file, tmp, call, rows, txn, pre, wpre, nwrites, nextId, now, catvars>>

\* a delete that writes the list back without comparing the lengths
delete_filter_always_writes(p) ==
    /\ Reads(p, "delete")
    /\ rows' = [rows EXCEPT ![p] = without(read_all(file), call[p].tx_id)]
    /\ write_all(p)
    /\ UNCHANGED <<file, tmp, call, txn, ret, pre, nwrites, nextId, now, catvars>>

\* delete_transaction, lines 376-379
delete_filter(p) ==
    LET all_txs == read_all(file)
        new_txs == without(all_txs, call[p].tx_id)
    IN  /\ Reads(p, "delete")
        /\ rows' = [rows EXCEPT ![p] = new_txs]
        /\ IF Len(new_txs) = Len(all_txs)
           THEN /\ Finish(p, Ret("ok", NoTx, FALSE))
                /\ UNCHANGED wpre
           ELSE /\ write_all(p)
                /\ UNCHANGED ret
        /\ UNCHANGED <<file, tmp, call, txn, pre, nwrites, nextId, now, catvars>>

\* an update that puts the merged record in the file before it looks at the
\* validator's verdict
update_merge_persists_first(p) ==
    LET all_txs == read_all(file)
        idx == IndexOf(all_txs, call[p].tx_id)
        tx == all_txs[idx]
        f == call[p].fields
        v == validate_transaction(Merge(f.datetime, tx.datetime, NoneDt),
                                  Merge(f.category, tx.category, None),
                                  Merge(f.amount, tx.amount, NoneAmt),
                                  Merge(f.type, tx.type, None),
                                  Merge(f.description, tx.description, None),
                                  call[p].allowed, now)
        merged == Transaction(tx.id, Merge(f.datetime, tx.datetime, NoneDt),
                              Merge(f.category, tx.category, None),
                              Merge(f.amount, tx.amount, NoneAmt),
                              Merge(f.type, tx.type, None),
                              Merge(f.description, tx.description, None))
    IN  /\ Reads(p, "update")
        /\ idx # 0
        /\ ~v.ok
        /\ file' = File(TRUE, TRUE, [file.rows EXCEPT ![idx] = merged])
        /\ Finish(p, Ret("ValueError", NoTx, FALSE))
        /\ UNCHANGED <<tmp, call, rows, txn, pre, wpre, nwrites, nextId, now, catvars>>

\* an update that takes the category for "Other" when none is given
update_merge_resets_category(p) ==
    LET all_txs == read_all(file)
        idx == IndexOf(all_txs, call[p].tx_id)
        tx == all_txs[idx]
        f == call[p].fields
        v == validate_transaction(Merge(f.datetime, tx.datetime, NoneDt),
                                  Merge(f.category, Other, None),
                                  Merge(f.amount, tx.amount, NoneAmt),
                                  Merge(f.type, tx.type, None),
                                  Merge(f.description, tx.description, None),
                                  call[p].allowed, now)
        updated == UpdateRecord(tx, v.normalized)
    IN  /\ Reads(p, "update")
        /\ idx # 0
        /\ v.ok
        /\ rows' = [rows EXCEPT ![p] = [all_txs EXCEPT ![idx] = updated]]
        /\ txn' = [txn EXCEPT ![p] = updated]
        /\ write_all(p)
        /\ UNCHANGED <<file, tmp, call, ret, pre, nwrites, nextId, now, catvars>>

\* update_transaction, lines 629-675 and 680
update_merge(p) ==
    LET all_txs == read_all(file)
        idx == IndexOf(all_txs, call[p].tx_id)
        tx == all_txs[idx]
        f == call[p].fields
        v == validate_transaction(Merge(f.datetime, tx.datetime, NoneDt),
                                  Merge(f.category, tx.category, None),
                                  Merge(f.amount, tx.amount, NoneAmt),
                                  Merge(f.type, tx.type, None),
                                  Merge(f.description, tx.description, None),
                                  call[p].allowed, now)
        updated == UpdateRecord(tx, v.normalized)
    IN  /\ Reads(p, "update")
        /\ IF idx = 0
           THEN /\ Finish(p, Ret("KeyError", NoTx, FALSE))
                /\ UNCHANGED <<rows, txn, wpre>>
           ELSE IF v.raised
           THEN /\ Finish(p, Ret("InvalidOperation", NoTx, FALSE))
                /\ UNCHANGED <<rows, txn, wpre>>
           ELSE IF ~v.ok
           THEN /\ Finish(p, Ret("ValueError", NoTx, FALSE))
                /\ UNCHANGED <<rows, txn, wpre>>
           ELSE /\ rows' = [rows EXCEPT ![p] = [all_txs EXCEPT ![idx] = updated]]
                /\ txn' = [txn EXCEPT ![p] = updated]
                /\ write_all(p)
                /\ UNCHANGED ret
        /\ UNCHANGED <<file, tmp, call, pre, nwrites, nextId, now, catvars>>

\* ------------------------------------------------------------- _atomic_write_rows
\* what the call returns once the write is through
Result(p) ==
    IF call[p].op = "delete" THEN Ret("ok", NoTx, TRUE) ELSE Ret("ok", txn[p], FALSE)

\* lines 73-74: tempfile.mkstemp creates the temporary file, empty
mkstemp(p) ==
    /\ pc[p] = "w_mkstemp"
    /\ tmp' = [tmp EXCEPT ![p] = Truncated]
    /\ nwrites' = [nwrites EXCEPT ![p] = @ + 1]
    /\ pc' = [pc EXCEPT ![p] = "w_header"]
    /\ UNCHANGED <<file, call, rows, txn, ret, pre, wpre, nextId, now, catvars>>

\* a write that opens the canonical file itself and rewrites it in place
write_header_in_place(p) ==
    /\ pc[p] = "w_header"
    /\ file' = File(TRUE, TRUE, <<>>)
    /\ pc' = [pc EXCEPT ![p] = "w_rows"]
    /\ UNCHANGED <<tmp, call, rows, txn, ret, pre, wpre, nwrites, nextId, now, catvars>>

\* lines 76-78: open(tmp_path, "w"), writer.writeheader()
write_header(p) ==
    /\ pc[p] = "w_header"
    /\ tmp' = [tmp EXCEPT ![p] = File(TRUE, TRUE, <<>>)]
    /\ pc' = [pc EXCEPT ![p] = "w_rows"]
    /\ UNCHANGED <<file, call, rows, txn, ret, pre, wpre, nwrites, nextId, now, catvars>>

\* a writer that takes the rows from the end of the list
write_row_reversed(p) ==
    /\ pc[p] = "w_rows"
    /\ Len(tmp[p].rows) < Len(rows[p])
    /\ tmp' = [tmp EXCEPT ![p].rows = Append(@, CsvRow(rows[p][Len(rows[p]) - Len(@)]))]
    /\ UNCHANGED <<file, pc, call, rows, txn, ret, pre, wpre, nwrites, nextId, now, catvars>>

\* lines 79-80: writer.writerow(r), one row
write_row(p) ==
    /\ pc[p] = "w_rows"
    /\ Len(tmp[p].rows) < Len(rows[p])
    /\ tmp' = [tmp EXCEPT ![p].rows = Append(@, CsvRow(rows[p][Len(@) + 1]))]
    /\ UNCHANGED <<file, pc, call, rows, txn, ret, pre, wpre, nwrites, nextId, now, catvars>>

\* line 81: the file is closed and os.replace(tmp_path, csv_path) puts it in
\* the canonical file's place; the call returns
replace(p) ==
    /\ pc[p] = "w_rows"
    /\ Len(tmp[p].rows) = Len(rows[p])
    /\ file' = tmp[p]
    /\ tmp' = [tmp EXCEPT ![p] = NoFile]
    /\ Finish(p, Result(p))
    /\ UNCHANGED <<call, rows, txn, pre, wpre, nwrites, nextId, now, catvars>>

\* a file-system call of the write raises: mkstemp (line 73, outside the try,
\* so the error leaves at once and there is no temporary file), or open, a
\* write, the close or os.replace (lines 76-81, inside the try)
write_fails(p) ==
    /\ pc[p] \in {"w_mkstemp", "w_header", "w_rows"}
    /\ IF pc[p] = "w_mkstemp"
       THEN /\ Finish(p, Ret("OSError", NoTx, FALSE))
            /\ nwrites' = [nwrites EXCEPT ![p] = @ + 1]
       ELSE /\ pc' = [pc EXCEPT ![p] = "w_cleanup"]
            /\ UNCHANGED <<ret, nwrites>>
    /\ UNCHANGED <<file, tmp, call, rows, txn, pre, wpre, nextId, now, catvars>>

\* an error handler that raises without removing the temporary file
cleanup_leaves_tmp(p) ==
    /\ pc[p] = "w_cleanup"
    /\ Finish(p, Ret("OSError", NoTx, FALSE))
    /\ UNCHANGED <<file, tmp, call, rows, txn, pre, wpre, nwrites, nextId, now, catvars>>

\* lines 82-88: os.remove(tmp_path), then raise.  The removal is taken to
\* succeed: the one fault of a call is the one this handler recovers from.
cleanup(p) ==
    /\ pc[p] = "w_cleanup"
    /\ tmp' = [tmp EXCEPT ![p] = NoFile]
    /\ Finish(p, Ret("OSError", NoTx, FALSE))
    /\ UNCHANGED <<file, call, rows, txn, pre, wpre, nwrites, nextId, now, catvars>>

\* ------------------------------------------------------------- the environment
\* the process is interrupted (killed) between two file-system steps: nothing
\* of it runs any more, and what it left on disk stays
crash(p) ==
    /\ pc[p] \notin {"idle", "done"}
    /\ Finish(p, Ret("crashed", NoTx, FALSE))
    /\ call' = [call EXCEPT ![p] = Call(call[p].op, 0, NoFields, NotGiven)]
    /\ rows' = [rows EXCEPT ![p] = <<>>]
    /\ txn' = [txn EXCEPT ![p] = NoTx]
    /\ UNCHANGED <<file, tmp, pre, wpre, nwrites, nextId, now, catvars>>

\* the caller takes the result (or the program is started again); a temporary
\* file left behind keeps its random name and is never opened again
return(p) ==
    /\ pc[p] = "done"
    /\ pc' = [pc EXCEPT ![p] = "idle"]
    /\ call' = [call EXCEPT ![p] = NoCall]
    /\ rows' = [rows EXCEPT ![p] = <<>>]
    /\ txn' = [txn EXCEPT ![p] = NoTx]
    /\ ret' = [ret EXCEPT ![p] = NoRet]
    /\ pre' = [pre EXCEPT ![p] = NoFile]
    /\ wpre' = [wpre EXCEPT ![p] = NoFile]
    /\ nwrites' = [nwrites EXCEPT ![p] = 0]
    /\ tmp' = [tmp EXCEPT ![p] = NoFile]
    /\ UNCHANGED <<file, nextId, now, catvars>>

\* time passes
tick ==
    /\ now < MaxNow
    /\ now' = now + 1
    /\ UNCHANGED <<file, tmp, pc, call, rows, txn, ret, pre, wpre, nwrites, nextId, catvars>>

Next ==
    \/ \E p \in Single, f \in CreateFields, a \in AllowedInputs : create_transaction(p, f, a)
    \/ \E p \in Single : read_transactions(p)
    \/ \E p \in Single, i \in IdInputs : get_transaction(p, i)
    \/ \E p \in Single, i \in IdInputs : delete_transaction(p, i)
    \/ \E p \in Single, i \in IdInputs, f \in UpdateFields, a \in AllowedInputs :
            update_transaction(p, i, f, a)
    \/ \E p \in Single : ensure_csv_exists(p)
    \/ \E p \in Single : ensure_open(p)
    \/ \E p \in Single : ensure_header(p)
    \/ \E p \in Single : create_append(p)
    \/ \E p \in Single : read_return(p)
    \/ \E p \in Single : get_return(p)
    \/ \E p \in Single : get_totals(p)
    \/ \E p \in Single : totals_return(p)
    \/ \E p \in Single : delete_filter(p)
    \/ \E p \in Single : update_merge(p)
    \/ \E p \in Single : mkstemp(p)
    \/ \E p \in Single : write_header(p)
    \/ \E p \in Single : write_row(p)
    \/ \E p \in Single : replace(p)
    \/ \E p \in Single : write_fails(p)
    \/ \E p \in Single : cleanup(p)
    \/ \E p \in Single : crash(p)
    \/ \E p \in Single : return(p)
    \/ tick

Spec == Init /\ [][Next]_vars

\* ------------------------------------------------------------- the store under any file
\* _read_all and _write_all over the files that csv_path can name: the ones
\* this program wrote, and ones edited by hand, whose cells may be blank or
\* carry blanks around the text.
MaxRows == 2

\* the row create_transaction stores for valid fields
Stored(tx_id, f) ==
    CsvRow(CreateRecord(tx_id,
        validate_transaction(f.datetime, f.category, f.amount, f.type, f.description,
                             NotGiven, MaxNow).normalized))

RowInputs ==
    { Stored(1, Base),
      Stored(2, [Base EXCEPT !.type = expense]),
      Transaction(1, DtText("iso", 0), <<" ", "O", "t", "h", "e", "r", " ">>,
                  AM50, <<" ", "E", "x", "p", "e", "n", "s", "e">>, <<"t", "e", "a", " ">>),
      Transaction(2, DtText("iso", 1), Empty, Amt("str", "nan", FALSE, 0, 0),
                  income, <<" ">>),
      Transaction(0, DtText("bad", 0), Rent, AAbc, Empty, Tea) }

RECURSIVE SeqsUpTo(_, _)
SeqsUpTo(S, n) ==
    IF n = 0 THEN {<<>>}
    ELSE LET shorter == SeqsUpTo(S, n - 1)
         IN  shorter \cup {Append(q, x) : q \in shorter, x \in S}

FileInputs ==
    {NoFile, Truncated} \cup {File(TRUE, TRUE, q) : q \in SeqsUpTo(RowInputs, MaxRows)}

StoreInit ==
    /\ file \in FileInputs
    /\ tmp = [p \in Procs |-> NoFile]
    /\ pc = [p \in Procs |-> "idle"]
    /\ call = [p \in Procs |-> NoCall]
    /\ rows = [p \in Procs |-> <<>>]
    /\ txn = [p \in Procs |-> NoTx]
    /\ ret = [p \in Procs |-> NoRet]
    /\ pre = [p \in Procs |-> NoFile]
    /\ wpre = [p \in Procs |-> NoFile]
    /\ nwrites = [p \in Procs |-> 0]
    /\ nextId = 1
    /\ now = 1
    /\ catfile = NoCatFile
    /\ catop = NoCatOp
    /\ catpre = NoCatFile
    /\ nedits = 0

\* _write_all(csv_path, _read_all(csv_path)) is called: first _read_all, line 93
rewrite(p) ==
    /\ Begin(p, Call("rewrite", 0, NoFields, NotGiven))
    /\ pc' = [pc EXCEPT ![p] = "fs"]
    /\ UNCHANGED <<file, tmp, rows, txn, ret, nextId, now, catvars>>

\* lines 95-110, then _write_all, line 186, of what was read
rewrite_read(p) ==
    /\ Reads(p, "rewrite")
    /\ rows' = [rows EXCEPT ![p] = read_all(file)]
    /\ write_all(p)
    /\ UNCHANGED <<file, tmp, call, txn, ret, pre, nwrites, nextId, now, catvars>>

StoreNext ==
    \/ \E p \in Single : rewrite(p)
    \/ \E p \in Single : ensure_csv_exists(p)
    \/ \E p \in Single : ensure_open(p)
    \/ \E p \in Single : ensure_header(p)
    \/ \E p \in Single : rewrite_read(p)
    \/ \E p \in Single : mkstemp(p)
    \/ \E p \in Single : write_header(p)
    \/ \E p \in Single : write_row(p)
    \/ \E p \in Single : replace(p)
    \/ \E p \in Single : return(p)

StoreSpec == StoreInit /\ [][StoreNext]_vars

\* ------------------------------------------------------------- the validator alone
\* validate_transaction as a function of its arguments
\* the longest description the prompt of line 521 lets through
DescriptionLimit == 75
Text(n) == [i \in 1..n |-> "x"]

Salary == <<"s", "a", "l", "a", "r", "y">>

\* "12.355", "-12.345", "0.005", "1.2"
A12355 == Dec(FALSE, 12355, 3)
AM12345 == Dec(TRUE, 12345, 3)
A0005 == Dec(FALSE, 5, 3)
A12 == Dec(FALSE, 1200, 1)

ValidateFields ==
    { Fields(dt, cat, amt, typ, desc) :
        dt \in {DtText("space", 0), DtText("bad", 0)},
        cat \in {Rent, <<" ", "O", "t", "h", "e", "r", " ">>, <<" ">>},
        amt \in {A50, A12345, A12355, AM12345, A0005, A12, AAbc, ANaN, AInf},
        typ \in {income, <<" ", "E", "x", "p", "e", "n", "s", "e">>, Salary, Empty},
        desc \in {Tea, <<" ", " ">>, Text(DescriptionLimit), Text(DescriptionLimit + 1)} }

ValidateAllowed ==
    { NotGiven, Allowed({}), Allowed({Other}),
      Allowed({Rent, <<" ", "O", "t", "h", "e", "r", " ">>}) }

ValidatorInit ==
    /\ file = NoFile
    /\ tmp = [p \in Procs |-> NoFile]
    /\ pc = [p \in Procs |-> "idle"]
    /\ call \in {[p \in Procs |-> IF p \in Single THEN Call("validate", 0, f, a)
                                  ELSE NoCall] :
                    f \in ValidateFields, a \in ValidateAllowed}
    /\ rows = [p \in Procs |-> <<>>]
    /\ txn = [p \in Procs |-> NoTx]
    /\ ret = [p \in Procs |-> NoRet]
    /\ pre = [p \in Procs |-> NoFile]
    /\ wpre = [p \in Procs |-> NoFile]
    /\ nwrites = [p \in Procs |-> 0]
    /\ nextId = 1
    /\ now = 1
    /\ catfile = NoCatFile
    /\ catop = NoCatOp
    /\ catpre = NoCatFile
    /\ nedits = 0

\* validate_transaction(...) is called and returns (is_valid, errors,
\* normalized), or the exception of _validate_amount leaves it
validate(p) ==
    LET f == call[p].fields
        v == validate_transaction(f.datetime, f.category, f.amount, f.type,
                                  f.description, call[p].allowed, now)
        n == v.normalized
    IN  /\ pc[p] = "idle"
        /\ call[p].op = "validate"
        /\ IF v.raised
           THEN Finish(p, Ret("InvalidOperation", NoTx, FALSE))
           ELSE Finish(p, Ret("ok", Transaction(0, n.datetime, n.category, n.amount,
                                                n.type, n.description), v.ok))
        /\ UNCHANGED <<file, tmp, call, rows, txn, pre, wpre, nwrites, nextId, now, catvars>>

ValidatorNext == \E p \in Single : validate(p)

ValidatorSpec == ValidatorInit /\ [][ValidatorNext]_vars

\* ------------------------------------------------------------- the category handlers
\* The handlers of the Manage Categories menu (csv_transactions.py) and of the
\* Categories tab (gui.py).  The program is single-threaded, so a handler runs
\* from its prompt to its message as one step, with no file-system fault.
\* most calls of _write_categories in a session
MaxEdits == 2

\* _ensure_csv_exists, lines 61-65, run to its end
Ensured(f) == IF f.exists THEN f ELSE File(TRUE, TRUE, <<>>)

\* _category_in_use, lines 174-178, on the transaction file f
category_in_use(f, name) ==
    LET txs == read_all(Ensured(f))
    IN  \E i \in 1..Len(txs) :
            lower(strip(OrEmpty(txs[i].category))) = lower(strip(name))

\* the any(...) of lines 1093, 1115 and of gui.py lines 438, 459
taken(catrows, name, typ) ==
    \E i \in 1..Len(catrows) :
        lower(catrows[i].name) = lower(name) /\ catrows[i].type = typ

\* victim["name"].lower() == "other", line 1144 and gui.py line 480
reserved(name) == lower(name) = lower(Other)

\* the index of the first row with this very name and type, gui.py lines 464-467
first_row(catrows, name, typ) ==
    CHOOSE i \in 1..Len(catrows) :
        /\ catrows[i].name = name /\ catrows[i].type = typ
        /\ \A j \in 1..(i - 1) : ~(catrows[j].name = name /\ catrows[j].type = typ)

\* gui.py line 487: the rows that are not this very name and type
RECURSIVE rows_without(_, _, _)
rows_without(catrows, name, typ) ==
    IF catrows = <<>> THEN <<>>
    ELSE IF ~(Head(catrows).name = name /\ Head(catrows).type = typ)
    THEN <<Head(catrows)>> \o rows_without(Tail(catrows), name, typ)
    ELSE rows_without(Tail(catrows), name, typ)

\* del cats[idx], line 1151
del(catrows, idx) ==
    SubSeq(catrows, 1, idx - 1) \o SubSeq(catrows, idx + 1, Len(catrows))

\* the outcomes in which a handler called _write_categories
Written == {"added", "renamed", "deleted"}

\* the program waits at its menu (line 1075) or in its event loop
AtPrompt(p) == pc[p] = "idle" /\ catfile.exists /\ catop = NoCatOp

\* a handler ends: what it left in the two files
Handled(p, op, cf, f) ==
    /\ AtPrompt(p)
    /\ op.out \in Written => nedits < MaxEdits
    /\ nedits' = IF op.out \in Written THEN nedits + 1 ELSE nedits
    /\ catpre' = catfile
    /\ catop' = op
    /\ catfile' = cf
    /\ file' = f
    /\ UNCHANGED <<tmp, pc, call, rows, txn, ret, pre, wpre, nwrites, nextId, now>>

\* the message is shown and the menu (or the window) takes the next choice
prompt(p) ==
    /\ pc[p] = "idle"
    /\ catop # NoCatOp
    /\ catop' = NoCatOp
    /\ catpre' = NoCatFile
    /\ UNCHANGED <<file, tmp, pc, call, rows, txn, ret, pre, wpre, nwrites, nextId, now,
                   catfile, nedits>>

\* _ensure_categories_csv_exists, lines 116-133, as the menu (line 1061) and
\* the window (gui.py line 64) call it before any handler
ensure_categories_csv_exists(p) ==
    /\ pc[p] = "idle"
    /\ ~catfile.exists
    /\ catfile' = CatFile(TRUE, defaults)
    /\ UNCHANGED <<file, tmp, pc, call, rows, txn, ret, pre, wpre, nwrites, nextId, now,
                   catop, catpre, nedits>>

\* menu choice 2, lines 1083-1098
menu_add(p, name_in, typ_in) ==
    LET name == strip(name_in)
        typ == lower(strip(typ_in))
        all_rows == read_categories(catfile)
        op(out) == CatOp("add", 0, out)
    IN  /\ AtPrompt(p)
        /\ IF name = Empty THEN Handled(p, op("empty"), catfile, file)
           ELSE IF typ \notin {income, expense} THEN Handled(p, op("badtype"), catfile, file)
           ELSE IF taken(all_rows, name, typ) THEN Handled(p, op("exists"), catfile, file)
           ELSE Handled(p, op("added"),
                        write_categories(Append(all_rows, Cat(name, typ))), file)

\* a rename that does not look for the new name among the rows
menu_rename_unchecked(p, raw, new_name_in, confirm) ==
    LET cats == read_categories(catfile)
        new_name == strip(new_name_in)
        op(out) == CatOp("rename", raw, out)
    IN  /\ AtPrompt(p)
        /\ raw \in 1..Len(cats)
        /\ new_name # Empty
        /\ Handled(p, op("renamed"),
                   write_categories([cats EXCEPT ![raw].name = new_name]), Ensured(file))

\* menu choice 3, lines 1099-1129
menu_rename(p, raw, new_name_in, confirm) ==
    LET cats == read_categories(catfile)
        old == cats[raw]
        new_name == strip(new_name_in)
        op(out) == CatOp("rename", raw, out)
    IN  /\ AtPrompt(p)
        /\ IF cats = <<>> THEN Handled(p, op("none"), catfile, file)
           ELSE IF raw \notin 1..Len(cats) THEN Handled(p, op("invalid"), catfile, file)
           ELSE IF new_name = Empty THEN Handled(p, op("cancelled"), catfile, file)
           ELSE IF taken(cats, new_name, old.type) THEN Handled(p, op("exists"), catfile, file)
           ELSE IF category_in_use(file, old.name) /\ ~confirm
           THEN Handled(p, op("declined"), catfile, Ensured(file))
           ELSE Handled(p, op("renamed"),
                        write_categories([cats EXCEPT ![raw].name = new_name]), Ensured(file))

\* a delete that compares the names of the transactions as they are written
menu_delete_case_sensitive(p, raw) ==
    LET cats == read_categories(catfile)
        victim == cats[raw]
        txs == read_all(Ensured(file))
        op(out) == CatOp("delete", raw, out)
    IN  /\ AtPrompt(p)
        /\ raw \in 1..Len(cats)
        /\ IF reserved(victim.name) THEN Handled(p, op("reserved"), catfile, file)
           ELSE IF \E i \in 1..Len(txs) : txs[i].category = victim.name
           THEN Handled(p, op("in_use"), catfile, Ensured(file))
           ELSE Handled(p, op("deleted"), write_categories(del(cats, raw)), Ensured(file))

\* a delete without the test for the reserved name
menu_delete_unreserved(p, raw) ==
    LET cats == read_categories(catfile)
        victim == cats[raw]
        op(out) == CatOp("delete", raw, out)
    IN  /\ AtPrompt(p)
        /\ raw \in 1..Len(cats)
        /\ IF category_in_use(file, victim.name)
           THEN Handled(p, op("in_use"), catfile, Ensured(file))
           ELSE Handled(p, op("deleted"), write_categories(del(cats, raw)), Ensured(file))

\* menu choice 4, lines 1130-1153
menu_delete(p, raw) ==
    LET cats == read_categories(catfile)
        victim == cats[raw]
        op(out) == CatOp("delete", raw, out)
    IN  /\ AtPrompt(p)
        /\ IF cats = <<>> THEN Handled(p, op("none"), catfile, file)
           ELSE IF raw \notin 1..Len(cats) THEN Handled(p, op("invalid"), catfile, file)
           ELSE IF reserved(victim.name) THEN Handled(p, op("reserved"), catfile, file)
           ELSE IF category_in_use(file, victim.name)
           THEN Handled(p, op("in_use"), catfile, Ensured(file))
           ELSE Handled(p, op("deleted"), write_categories(del(cats, raw)), Ensured(file))

\* App.add_category, gui.py lines 423-445.  A dialog that is cancelled gives
\* None, which "not name" treats as the empty text.
add_category(p, name_in, typ_in) ==
    LET typ == lower(strip(typ_in))
        catrows == read_categories(catfile)
        op(out) == CatOp("add", 0, out)
    IN  /\ AtPrompt(p)
        /\ IF name_in = Empty \/ typ_in = Empty THEN Handled(p, op("empty"), catfile, file)
           ELSE IF typ \notin {income, expense} THEN Handled(p, op("badtype"), catfile, file)
           ELSE IF taken(catrows, strip(name_in), typ)
           THEN Handled(p, op("exists"), catfile, file)
           ELSE Handled(p, op("added"),
                        write_categories(Append(catrows, Cat(strip(name_in), typ))), file)

\* App.rename_category, gui.py lines 447-472.  sel is the row selected in the
\* tree, which shows what _read_categories returned at the last refresh.
rename_category(p, sel, new_name_in, confirm) ==
    LET catrows == read_categories(catfile)
        name == catrows[sel].name
        typ == catrows[sel].type
        op(out) == CatOp("rename", sel, out)
    IN  /\ AtPrompt(p)
        /\ IF sel \notin 1..Len(catrows) THEN Handled(p, op("invalid"), catfile, file)
           ELSE IF new_name_in = Empty \/ strip(new_name_in) = name
           THEN Handled(p, op("cancelled"), catfile, file)
           ELSE IF taken(catrows, strip(new_name_in), typ)
           THEN Handled(p, op("exists"), catfile, file)
           ELSE IF category_in_use(file, name) /\ ~confirm
           THEN Handled(p, op("declined"), catfile, Ensured(file))
           ELSE Handled(p, op("renamed"),
                        write_categories([catrows EXCEPT
                            ![first_row(catrows, name, typ)].name = strip(new_name_in)]),
                        Ensured(file))

\* App.delete_category, gui.py lines 474-490
delete_category(p, sel, confirm) ==
    LET catrows == read_categories(catfile)
        name == catrows[sel].name
        typ == catrows[sel].type
        op(out) == CatOp("delete", sel, out)
    IN  /\ AtPrompt(p)
        /\ IF sel \notin 1..Len(catrows) THEN Handled(p, op("invalid"), catfile, file)
           ELSE IF reserved(name) THEN Handled(p, op("reserved"), catfile, file)
           ELSE IF category_in_use(file, name)
           THEN Handled(p, op("in_use"), catfile, Ensured(file))
           ELSE IF ~confirm THEN Handled(p, op("declined"), catfile, Ensured(file))
           ELSE Handled(p, op("deleted"),
                        write_categories(rows_without(catrows, name, typ)), Ensured(file))

\* create_transaction, lines 302-353, from its call to its return with no
\* file-system fault; the front ends pass _all_category_names as the allowed
\* set (line 757, gui.py line 296), a caller of the function may pass none
create_transaction_returns(p, fields, given) ==
    LET allowed == IF given THEN Allowed(all_category_names(catfile)) ELSE NotGiven
        v == validate_transaction(fields.datetime, fields.category, fields.amount,
                                  fields.type, fields.description, allowed, now)
        tx == CreateRecord(uuid4(nextId), v.normalized)
    IN  /\ AtPrompt(p)
        /\ IF v.ok
           THEN /\ nextId <= MaxIds
                /\ file' = File(TRUE, TRUE, CsvRows(Append(read_all(Ensured(file)), tx)))
                /\ nextId' = nextId + 1
           ELSE UNCHANGED <<file, nextId>>
        /\ UNCHANGED <<tmp, pc, call, rows, txn, ret, pre, wpre, nwrites, now, catvars>>

\* delete_transaction, lines 371-381, from its call to its return with no
\* file-system fault
delete_transaction_returns(p, tx_id) ==
    LET all_txs == read_all(Ensured(file))
        new_txs == without(all_txs, tx_id)
    IN  /\ AtPrompt(p)
        /\ file' = IF Len(new_txs) = Len(all_txs) THEN Ensured(file)
                   ELSE File(TRUE, TRUE, CsvRows(new_txs))
        /\ UNCHANGED <<tmp, pc, call, rows, txn, ret, pre, wpre, nwrites, nextId, now,
                       catvars>>

\* what is typed at the prompts: " Rent ", "rent", a blank
RentLower == <<"r", "e", "n", "t">>
NameInputs == {<<" ", "R", "e", "n", "t", " ">>, RentLower, <<" ">>}
\* "Rent", "other", nothing
OtherLower == <<"o", "t", "h", "e", "r">>
NewNameInputs == {Rent, OtherLower, Empty}
TypeInputs == {income, <<" ", "E", "x", "p", "e", "n", "s", "e">>, Salary}
\* the rows picked: none, Other (expense), Earned Income, the first row added
ChoiceInputs == {0, 7, 8, Len(defaults) + 1}
\* the transactions entered while the registry is edited
CatCreateFields ==
    { [Base EXCEPT !.category = c] : c \in {RentLower, Other} }

CatNext ==
    \/ \E p \in Single : ensure_categories_csv_exists(p)
    \/ \E p \in Single, n \in NameInputs, t \in TypeInputs : menu_add(p, n, t)
    \/ \E p \in Single, i \in ChoiceInputs, n \in NewNameInputs, c \in BOOLEAN :
            menu_rename(p, i, n, c)
    \/ \E p \in Single, i \in ChoiceInputs : menu_delete(p, i)
    \/ \E p \in Single, n \in NameInputs \cup {Empty}, t \in TypeInputs \cup {Empty} :
            add_category(p, n, t)
    \/ \E p \in Single, i \in ChoiceInputs, n \in NewNameInputs, c \in BOOLEAN :
            rename_category(p, i, n, c)
    \/ \E p \in Single, i \in ChoiceInputs, c \in BOOLEAN : delete_category(p, i, c)
    \/ \E p \in Single, f \in CatCreateFields, g \in BOOLEAN :
            create_transaction_returns(p, f, g)
    \/ \E p \in Single, i \in 1..MaxIds : delete_transaction_returns(p, i)
    \/ \E p \in Single : prompt(p)

CatSpec == Init /\ [][CatNext]_vars

\* ------------------------------------------------------------- the entry flows
\* The two flows of the main menu that write transactions; each passes
\* _all_category_names as the allowed set.
\* the characters of the category names, in code point order
Alphabet == <<" ", "&">> \o Lower
CodeOf ==
    [c \in {Alphabet[i] : i \in 1..Len(Alphabet)} |->
        CHOOSE i \in 1..Len(Alphabet) : Alphabet[i] = c]
Code(c) == IF c \in DOMAIN CodeOf THEN CodeOf[c] ELSE 0

\* a < b for two str
RECURSIVE Less(_, _)
Less(a, b) ==
    IF b = <<>> THEN FALSE
    ELSE IF a = <<>> THEN TRUE
    ELSE IF Head(a) = Head(b) THEN Less(Tail(a), Tail(b))
    ELSE Code(Head(a)) < Code(Head(b))

\* sorted(cats, key=str.lower); the sort is stable
RECURSIVE sorted(_)
sorted(cats) ==
    IF cats = <<>> THEN <<>>
    ELSE LET n == Len(cats)
             x == cats[n]
             s == sorted(SubSeq(cats, 1, n - 1))
             k == Cardinality({i \in 1..Len(s) : ~Less(lower(x), lower(s[i]))})
         IN  SubSeq(s, 1, k) \o <<x>> \o SubSeq(s, k + 1, Len(s))

\* _list_categories_by_type, lines 165-169
list_categories_by_type(cf, typ) ==
    LET of_type(c) == c.type = typ
        mine == SelectSeq(read_categories(cf), of_type)
        cats == [i \in 1..Len(mine) |-> mine[i].name]
    IN  sorted(IF \E i \in 1..Len(cats) : cats[i] = Other THEN cats
               ELSE Append(cats, Other))

\* _enter_transaction_flow, lines 744-772: the type is picked (typed, lines
\* 571-590), the category is picked from the list of its type
\* (_select_category_from_file, lines 531-550, which asks again until the
\* number is on the list), the record is created against the names of the
\* registry
enter_transaction_flow(p, typed_value, choice) ==
    LET cats == list_categories_by_type(catfile, lower(strip(typed_value)))
        allowed == Allowed(all_category_names(catfile))
        v == validate_transaction(Base.datetime, cats[choice], Base.amount, typed_value,
                                  Base.description, allowed, now)
        txs == Append(read_all(Ensured(file)), CreateRecord(uuid4(nextId), v.normalized))
    IN  /\ AtPrompt(p)
        /\ choice \in 1..Len(cats)
        /\ catpre' = catfile
        /\ IF v.ok
           THEN /\ nextId <= MaxIds
                /\ file' = File(TRUE, TRUE, CsvRows(txs))
                /\ nextId' = nextId + 1
                /\ catop' = CatOp("enter", Len(txs), "saved")
           ELSE /\ catop' = CatOp("enter", choice, "refused")
                /\ UNCHANGED <<file, nextId>>
        /\ UNCHANGED <<tmp, pc, call, rows, txn, ret, pre, wpre, nwrites, now, catfile,
                       nedits>>

\* _edit_transaction_flow, lines 801-868, with the datetime, type, amount and
\* description prompts left blank: the category is picked from the list of the
\* record's type, or kept (a blank or a number off the list), and the record is
\* updated against the names of the registry
edit_transaction_flow(p, tx_id, raw) ==
    LET all_txs == read_all(Ensured(file))
        idx == IndexOf(all_txs, tx_id)
        tx == all_txs[idx]
        cats == list_categories_by_type(catfile, lower(strip(tx.type)))
        new_cat == IF raw \in 1..Len(cats) THEN cats[raw] ELSE None
        allowed == Allowed(all_category_names(catfile))
        v == validate_transaction(tx.datetime, Merge(new_cat, tx.category, None),
                                  tx.amount, tx.type, tx.description, allowed, now)
    IN  /\ AtPrompt(p)
        /\ catpre' = catfile
        /\ IF idx = 0
           THEN /\ file' = Ensured(file)
                /\ catop' = CatOp("edit", 0, "not_found")
           ELSE IF v.raised \/ ~v.ok
           THEN /\ file' = Ensured(file)
                /\ catop' = CatOp("edit", idx, "refused")
           ELSE /\ file' = File(TRUE, TRUE,
                                CsvRows([all_txs EXCEPT ![idx] = UpdateRecord(tx, v.normalized)]))
                /\ catop' = CatOp("edit", idx, "updated")
        /\ UNCHANGED <<tmp, pc, call, rows, txn, ret, pre, wpre, nwrites, nextId, now,
                       catfile, nedits>>

\* "Income", "Expense"
TypedInputs == {<<"I", "n", "c", "o", "m", "e">>, <<"E", "x", "p", "e", "n", "s", "e">>}
\* the numbers typed at the category prompt: none, the second and the sixth
PickInputs == {0, 2, 6}
\* the registry rows renamed: Other (expense), Other (income)
RenameInputs == {7, 10}

FlowNext ==
    \/ \E p \in Single : ensure_categories_csv_exists(p)
    \/ \E p \in Single : menu_add(p, Rent, expense)
    \/ \E p \in Single, i \in RenameInputs, n \in {Rent, OtherLower} :
            menu_rename(p, i, n, TRUE)
    \/ \E p \in Single : menu_delete(p, Len(defaults) + 1)
    \/ \E p \in Single, f \in CatCreateFields : create_transaction_returns(p, f, FALSE)
    \/ \E p \in Single, t \in TypedInputs, k \in PickInputs : enter_transaction_flow(p, t, k)
    \/ \E p \in Single, i \in 1..MaxIds, k \in PickInputs : edit_transaction_flow(p, i, k)
    \/ \E p \in Single : prompt(p)

FlowSpec == Init /\ [][FlowNext]_vars

\* ------------------------------------------------------------- two processes
\* Two runs of the program (two windows, a window and the menu) on one
\* transaction file, each calling the mutations; their file-system steps
\* interleave in any order.  No step fails.
RaceCreateFields == {Base}
RaceUpdateFields == {[NoFields EXCEPT !.amount = AM50]}

RaceNext ==
    \/ \E p \in Procs, f \in RaceCreateFields : create_transaction(p, f, NotGiven)
    \/ \E p \in Procs, i \in 1..MaxIds : delete_transaction(p, i)
    \/ \E p \in Procs, i \in 1..MaxIds, f \in RaceUpdateFields :
            update_transaction(p, i, f, NotGiven)
    \/ \E p \in Procs : ensure_csv_exists(p)
    \/ \E p \in Procs : ensure_open(p)
    \/ \E p \in Procs : ensure_header(p)
    \/ \E p \in Procs : create_append(p)
    \/ \E p \in Procs : delete_filter(p)
    \/ \E p \in Procs : update_merge(p)
    \/ \E p \in Procs : mkstemp(p)
    \/ \E p \in Procs : write_header(p)
    \/ \E p \in Procs : write_row(p)
    \/ \E p \in Procs : replace(p)
    \/ \E p \in Procs : return(p)

RaceSpec == Init /\ [][RaceNext]_vars

\* ------------------------------------------------------------- the registry bootstrap
\* _ensure_categories_csv_exists step by step: the file is created in place
\* and the defaults are written to it one after the other; the run may be
\* interrupted between any two steps and the program started again.  (The
\* header line is written first; a file with the header alone reads as one
\* without any line, so the header is no step of its own.)
\* lines 117-118: os.path.exists is False, open(categories_path, "w")
ensure_categories_open(p) ==
    /\ pc[p] = "idle"
    /\ ~catfile.exists
    /\ catfile' = CatFile(TRUE, <<>>)
    /\ pc' = [pc EXCEPT ![p] = "c_rows"]
    /\ UNCHANGED <<file, tmp, call, rows, txn, ret, pre, wpre, nwrites, nextId, now,
                   catop, catpre, nedits>>

\* line 133: writer.writerows(defaults), one row reaching the file
ensure_categories_row(p) ==
    /\ pc[p] = "c_rows"
    /\ Len(catfile.rows) < Len(defaults)
    /\ catfile' = CatFile(TRUE, Append(catfile.rows, defaults[Len(catfile.rows) + 1]))
    /\ UNCHANGED <<file, tmp, pc, call, rows, txn, ret, pre, wpre, nwrites, nextId, now,
                   catop, catpre, nedits>>

\* the with block of line 118 ends: the file is closed and the call returns
ensure_categories_close(p) ==
    /\ pc[p] = "c_rows"
    /\ Len(catfile.rows) = Len(defaults)
    /\ pc' = [pc EXCEPT ![p] = "idle"]
    /\ UNCHANGED <<file, tmp, call, rows, txn, ret, pre, wpre, nwrites, nextId, now,
                   catvars>>

\* the run is interrupted while the defaults are written; the program is
\* started again and finds what the interrupted run left
interrupted(p) ==
    /\ pc[p] = "c_rows"
    /\ pc' = [pc EXCEPT ![p] = "idle"]
    /\ UNCHANGED <<file, tmp, call, rows, txn, ret, pre, wpre, nwrites, nextId, now,
                   catvars>>

BootNext ==
    \/ \E p \in Single : ensure_categories_open(p)
    \/ \E p \in Single : ensure_categories_row(p)
    \/ \E p \in Single : ensure_categories_close(p)
    \/ \E p \in Single : interrupted(p)
    \/ \E p \in Single : menu_add(p, Rent, expense)
    \/ \E p \in Single, t \in TypedInputs, k \in {1, 2} : enter_transaction_flow(p, t, k)
    \/ \E p \in Single : prompt(p)

BootSpec == Init /\ [][BootNext]_vars

\* ------------------------------------------------------------- properties
Mutations == {"create", "update", "delete"}
Ended(p, op) == pc[p] = "done" /\ call[p].op = op /\ ret[p].kind # "crashed"
HeaderOnly == File(TRUE, TRUE, <<>>)
Ids(txs) == {txs[i].id : i \in 1..Len(txs)}

\* C1: at every point of a create, update or delete, an interruption between
\* two file-system steps included, the canonical file holds a complete
\* snapshot: the record set from before the mutation or, once the replace is
\* through, the record set the mutation wrote; rows never stand without the
\* header.
C1_CompleteSnapshot ==
    /\ file.rows # <<>> => file.header
    /\ \A p \in Procs :
          pc[p] # "idle" /\ call[p].op \in Mutations =>
            \/ read_all(file) = read_all(pre[p])
            \/ /\ pc[p] = "done" /\ ret[p].kind = "ok"
               /\ read_all(file) = read_all(File(TRUE, TRUE, CsvRows(rows[p])))

\* a create was interrupted with its temporary file half written while the
\* canonical file holds records
C1_Witness ==
    \E p \in Procs :
        /\ pc[p] = "done" /\ ret[p].kind = "crashed" /\ call[p].op = "create"
        /\ tmp[p].header /\ tmp[p].rows # <<>> /\ Len(tmp[p].rows) <= Len(file.rows)

NonNegative(a) == a.t = "num" /\ (~a.neg \/ a.m = 0)
NonPositive(a) == a.t = "num" /\ (a.neg \/ a.m = 0)

\* C3: every persisted record's amount is non-negative when its type is
\* income and non-positive when its type is expense.
C3_SignAgreesWithType ==
    \A i \in 1..Len(file.rows) :
        /\ file.rows[i].type = income => NonNegative(file.rows[i].amount)
        /\ file.rows[i].type = expense => NonPositive(file.rows[i].amount)

\* C4: the amount create persists for a numeric input is a decimal text with
\* exactly two fractional digits, signed by the type ("50.00" as an expense
\* is stored as "-50.00").
C4_StoredAmountTwoDigits ==
    \A p \in Procs :
        Ended(p, "create") /\ ret[p].kind = "ok" /\ ret[p].tx.amount.t = "num" =>
            LET stored == find(read_all(file), ret[p].tx.id).amount
            IN  /\ stored.k = "str" /\ stored.t = "num" /\ stored.d = 2
                /\ ret[p].tx.type = income => NonNegative(stored)
                /\ ret[p].tx.type = expense => NonPositive(stored)

\* C5: get_transaction of the id create returned gives a record equal, field
\* by field, to the record create returned.
C5_CreateThenGet ==
    \A p \in Procs :
        Ended(p, "create") /\ ret[p].kind = "ok" =>
            find(read_all(file), ret[p].tx.id) = ret[p].tx

\* C6: no two records of the store share an id; the id create mints is not in
\* the store it appends to; update writes back the ids it read, in place.
C6_UniqueIds ==
    /\ \A i, j \in 1..Len(file.rows) : i # j => file.rows[i].id # file.rows[j].id
    /\ \A p \in Procs :
          /\ pc[p] \in {"w_mkstemp", "w_header", "w_rows"} /\ call[p].op = "create"
                => txn[p].id \notin Ids(read_all(wpre[p]))
          /\ pc[p] \in {"w_mkstemp", "w_header", "w_rows"} /\ call[p].op = "update"
                => /\ Len(rows[p]) = Len(read_all(wpre[p]))
                   /\ \A i \in 1..Len(rows[p]) : rows[p][i].id = read_all(wpre[p])[i].id

\* two records are stored and an update of the second one went through
C6_Witness ==
    \E p \in Procs :
        /\ Ended(p, "update") /\ ret[p].kind = "ok"
        /\ Len(file.rows) = 2 /\ ret[p].tx.id = file.rows[2].id

Failed(p) == ret[p].kind \in {"ValueError", "KeyError", "InvalidOperation"}

\* C7 as claimed: when create or update fails on validation or on an unknown
\* id, the file on disk is exactly as it was before the call.
C7_FailureLeavesFileExactly ==
    \A p \in Procs :
        (Ended(p, "create") \/ Ended(p, "update")) /\ Failed(p) => file = pre[p]

\* C7 as amended: when create or update fails on validation or on an unknown
\* id, no record set is written; a file that existed before the call is
\* exactly as it was; a file that did not exist is still absent after a
\* failed create and holds the header alone after a failed update (whose
\* _read_all created it before the id was looked up).
C7_FailureWritesNothing ==
    \A p \in Procs :
        (Ended(p, "create") \/ Ended(p, "update")) /\ Failed(p) =>
            /\ nwrites[p] = 0
            /\ pre[p].exists => file = pre[p]
            /\ ~pre[p].exists /\ call[p].op = "create" => file = NoFile
            /\ ~pre[p].exists /\ call[p].op = "update" => file = HeaderOnly

\* an update of a stored record was refused by the validator
C7_Witness ==
    \E p \in Procs :
        /\ Ended(p, "update") /\ ret[p].kind = "ValueError"
        /\ call[p].tx_id \in Ids(read_all(file))

\* what update_transaction with no field given makes of a stored record
UpdateNoFields(tx, clock) ==
    UpdateRecord(tx, validate_transaction(tx.datetime, tx.category, tx.amount, tx.type,
                                          tx.description, NotGiven, clock).normalized)

\* C8: an update with no field given leaves the stored record as it was, and
\* doing it a second time gives what doing it once gave.
C8_UpdateNoFieldsUnchanged ==
    \A p \in Procs :
        Ended(p, "update") /\ ret[p].kind = "ok" /\ call[p].fields = NoFields =>
            LET was == find(read_all(pre[p]), call[p].tx_id)
                is == find(read_all(file), call[p].tx_id)
            IN  /\ is = was
                /\ UpdateNoFields(is, now) = is

AbsentId(p) == call[p].tx_id \notin Ids(read_all(pre[p]))

\* C9 as claimed: delete of an id that is not in the store returns False,
\* writes nothing and leaves the file on disk exactly as it was, whatever the
\* file was before.
C9_DeleteAbsentLeavesFileExactly ==
    \A p \in Procs :
        Ended(p, "delete") /\ AbsentId(p) =>
            /\ ret[p] = Ret("ok", NoTx, FALSE)
            /\ nwrites[p] = 0
            /\ file = pre[p]

\* C9 as amended: delete of an id that is not in the store returns False and
\* never calls _write_all; a file that existed is exactly as it was, and a
\* file that did not exist is created holding the header alone.
C9_DeleteAbsentWritesNothing ==
    \A p \in Procs :
        Ended(p, "delete") /\ AbsentId(p) =>
            /\ ret[p] = Ret("ok", NoTx, FALSE)
            /\ nwrites[p] = 0
            /\ pre[p].exists => file = pre[p]
            /\ ~pre[p].exists => file = HeaderOnly

\* a delete of an unknown id returned while the store holds records
C9_Witness ==
    \E p \in Procs :
        Ended(p, "delete") /\ AbsentId(p) /\ file.rows # <<>> /\ ~ret[p].flag

\* C10 as claimed: read_transactions and get_transaction leave the file on
\* disk as it was, the file not existing yet included.
C10_ReadLeavesFileExactly ==
    \A p \in Procs :
        Ended(p, "read") \/ Ended(p, "get") => file = pre[p]

\* C10 as amended: read_transactions and get_transaction leave a file that
\* exists exactly as it was; when the file does not exist yet they create it
\* holding the header alone, and read no record.
C10_ReadLeavesExistingFile ==
    \A p \in Procs :
        Ended(p, "read") \/ Ended(p, "get") =>
            /\ nwrites[p] = 0
            /\ pre[p].exists => file = pre[p]
            /\ ~pre[p].exists => file = HeaderOnly /\ rows[p] = <<>> /\ ret[p].tx = NoTx

\* a read returned the records of a store that holds some
C10_Witness ==
    \E p \in Procs : Ended(p, "read") /\ rows[p] # <<>> /\ pre[p].rows # <<>>

\* C11: a file written by _write_all from what _read_all returned reads back as
\* the very sequence of records of the first read: same records, same order,
\* none lost.
C11_RoundTrip ==
    \A p \in Procs :
        Ended(p, "rewrite") /\ ret[p].kind = "ok" =>
            /\ read_all(file) = rows[p]
            /\ read_all(file) = read_all(pre[p])

\* a file of two different rows, one with blanks around its cells, was
\* rewritten
C11_Witness ==
    \E p \in Procs :
        /\ Ended(p, "rewrite") /\ ret[p].kind = "ok"
        /\ Len(pre[p].rows) = 2 /\ pre[p].rows[1] # pre[p].rows[2]
        /\ \E i \in 1..2 : ReadRow(pre[p].rows[i]) # pre[p].rows[i]

\* the call of validate_transaction has returned
Validated(p) == pc[p] = "done" /\ call[p].op = "validate" /\ ret[p].kind = "ok"

\* C12: an amount whose third fractional digit is 5, with nothing after it, is
\* normalized to two fractional digits by rounding away from zero ("12.345"
\* becomes "12.35").
C12_RoundHalfUp ==
    \A p \in Procs :
        LET a == call[p].fields.amount
        IN  Validated(p) /\ a.t = "num" /\ a.d = 3 /\ a.m % 10 = 5 =>
                ret[p].tx.amount = Dec(a.neg, (a.m \div 10 + 1) * 10, 2)

\* the registry as _read_categories gives it, now and when the last handler
\* was entered, and the row that handler was pointed at
Registry == read_categories(catfile)
Before == read_categories(catpre)
Picked(op) == catop.op = op /\ catop.idx \in 1..Len(Before)
Victim == Before[catop.idx]
HasOther(typ) == LET reg == Registry IN \E i \in 1..Len(reg) : reg[i] = Cat(Other, typ)

\* C13: whatever adds, renames and deletes were done to the registry since it
\* was created, it holds an entry named Other of type income and one of type
\* expense.
C13_OtherAlwaysPresent ==
    catfile.exists => HasOther(income) /\ HasOther(expense)

\* C14: a category delete pointed at a row whose name some record of the
\* transaction file, as it is when the delete runs, carries (compared without
\* regard to case) fails and leaves the categories file as it was.
C14_DeleteInUseFails ==
    Picked("delete") /\ category_in_use(file, Victim.name) =>
        /\ catop.out \in {"in_use", "reserved"}
        /\ catfile = catpre

\* a delete was refused for a category that only a record spelled in another
\* case uses
C14_Witness ==
    /\ Picked("delete") /\ catop.out = "in_use"
    /\ \A i \in 1..Len(file.rows) : file.rows[i].category # Victim.name

\* C15: a category delete pointed at a row named Other fails and leaves the
\* categories file as it was, whether or not a transaction uses Other and also
\* when no other category of that type is left.
C15_DeleteOtherFails ==
    Picked("delete") /\ reserved(Victim.name) =>
        /\ catop.out = "reserved"
        /\ catfile = catpre

\* the delete of Other was refused when Other was the last category of its
\* type and no transaction used it
C15_Witness ==
    LET reg == Registry
    IN  /\ Picked("delete") /\ catop.out = "reserved"
        /\ \A i \in 1..Len(reg) : reg[i].type = Victim.type => i = catop.idx
        /\ ~category_in_use(file, Victim.name)

\* C16: no two entries of the registry have the same type and names that are
\* equal without regard to case; an add or a rename that finds its name taken
\* within the type leaves the categories file as it was.
C16_UniqueNamesPerType ==
    LET reg == Registry
        key == [i \in 1..Len(reg) |-> Cat(lower(reg[i].name), reg[i].type)]
    IN  /\ \A i, j \in 1..Len(reg) : i # j => key[i] # key[j]
        /\ catop.op \in {"add", "rename"} /\ catop.out = "exists" => catfile = catpre

\* a rename was refused because the new name, in another case, is taken, in a
\* registry that an add has extended
C16_Witness ==
    LET reg == Registry
    IN  /\ Picked("rename") /\ catop.out = "exists"
        /\ Len(reg) > Len(defaults)
        /\ \A i \in 1..Len(reg) : reg[i].name # Rent

\* an update of a stored record went through
Updated(p) ==
    /\ Ended(p, "update") /\ ret[p].kind = "ok"
    /\ call[p].tx_id \in Ids(read_all(pre[p]))

C18_TypeIsIncomeOrExpense ==
    \A p \in Procs :
        Validated(p) /\ ret[p].flag => lower(ret[p].tx.type) \in {income, expense}

\* C19: the validator accepts a description only when it is not empty and no
\* longer than 75 characters.
C19_DescriptionWithinLimit ==
    \A p \in Procs :
        Validated(p) /\ ret[p].flag =>
            /\ ret[p].tx.description # Empty
            /\ Len(ret[p].tx.description) <= DescriptionLimit

\* what the validator says of the call p made
Verdict(p) ==
    validate_transaction(call[p].fields.datetime, call[p].fields.category,
                         call[p].fields.amount, call[p].fields.type,
                         call[p].fields.description, call[p].allowed, now)

\* C20 as claimed: a non-empty trimmed category name is refused exactly when
\* the allowed set is not empty and does not hold the name; with an empty
\* allowed set, or none, every non-empty name is accepted.
C20_RefusedIffNonEmptySetLacksName ==
    \A p \in Procs :
        LET cat == strip(OrEmpty(call[p].fields.category))
            names == {strip(c) : c \in call[p].allowed.names}
        IN  Validated(p) /\ cat # Empty =>
                /\ ret[p].flag = Verdict(p).ok
                /\ E_ALLOWED \in Verdict(p).errors <=> (names # {} /\ cat \notin names)

\* C20 as amended: a non-empty trimmed category name is refused exactly when
\* an allowed set is given (is not None) and the name is not among its
\* trimmed names; with no allowed set every non-empty name is accepted, and a
\* given empty set refuses every name.
C20_RefusedIffGivenSetLacksName ==
    \A p \in Procs :
        LET cat == strip(OrEmpty(call[p].fields.category))
            names == {strip(c) : c \in call[p].allowed.names}
        IN  Validated(p) /\ cat # Empty =>
                /\ ret[p].flag = Verdict(p).ok
                /\ E_ALLOWED \in Verdict(p).errors <=>
                      (call[p].allowed.given /\ cat \notin names)

\* a call whose only fault is that the allowed set given is empty was refused
C20_Witness ==
    \E p \in Procs :
        /\ Validated(p) /\ ~ret[p].flag
        /\ call[p].allowed = Allowed({})
        /\ Verdict(p).errors = {E_ALLOWED}

\* what the validator says of the record p's create or update hands it
Checked(p) ==
    LET f == call[p].fields
        tx == find(read_all(pre[p]), call[p].tx_id)
    IN  IF call[p].op = "create"
        THEN validate_transaction(f.datetime, f.category, f.amount, f.type,
                                  f.description, call[p].allowed, now)
        ELSE validate_transaction(Merge(f.datetime, tx.datetime, NoneDt),
                                  Merge(f.category, tx.category, None),
                                  Merge(f.amount, tx.amount, NoneAmt),
                                  Merge(f.type, tx.type, None),
                                  Merge(f.description, tx.description, None),
                                  call[p].allowed, now)

\* p's create, or p's update of a stored record, was given a datetime that
\* parses and is later than the clock, with an amount the validator returns
\* from
GivenFuture(p) ==
    /\ Ended(p, "create") \/ (Ended(p, "update") /\ ~AbsentId(p))
    /\ call[p].fields.datetime.fmt \in {"iso", "space", "date"}
    /\ call[p].fields.datetime.t > now
    /\ ~Checked(p).raised

C22_ValidationReturns ==
    \A p \in Procs :
        pc[p] = "done" /\ call[p].op = "validate" =>
            /\ ret[p].kind = "ok"
            /\ call[p].fields.amount.t = "abc" => E_AMOUNT \in Verdict(p).errors

\* the record a flow has just written
Entered == catop.op \in {"enter", "edit"} /\ catop.out \in {"saved", "updated"}

\* C23: a record that a create or an update called with the names of the
\* registry as the allowed set has just written carries a category that is the
\* name of an entry of the registry as it is at the write.
C23_WrittenCategoryInRegistry ==
    Entered =>
        LET reg == read_categories(catfile)
        IN  \E i \in 1..Len(reg) : reg[i].name = read_all(file)[catop.idx].category

\* a record was written through a flow after the registry had been edited
C23_Witness ==
    Entered /\ nedits > 0 /\ catop.op = "edit"

Deleted(tx_id) ==
    \E p \in Procs : Ended(p, "delete") /\ call[p].tx_id = tx_id /\ ret[p].flag

\* the id is in no record of the file; a get of it returns None, an update of
\* it raises KeyError and a delete of it returns False
Gone(tx_id) ==
    /\ tx_id \notin Ids(read_all(file))
    /\ \A p \in Procs :
          /\ Ended(p, "get") /\ call[p].tx_id = tx_id => ret[p].tx = NoTx
          /\ Ended(p, "update") /\ call[p].tx_id = tx_id => ret[p].kind = "KeyError"
          /\ Ended(p, "delete") /\ call[p].tx_id = tx_id /\ ~Deleted(tx_id) => ~ret[p].flag

\* the id was handed out, is in no record of the file, and no call under way
\* holds a record of it to write
Dead(tx_id) ==
    /\ tx_id < nextId
    /\ tx_id \notin Ids(read_all(file))
    /\ \A p \in Procs :
          pc[p] \notin {"idle", "done"} =>
              txn[p].id # tx_id /\ tx_id \notin Ids(rows[p])

\* C24: once a delete of an id has returned True, the id stays out of the
\* file whatever is created, updated or deleted afterwards: every later get
\* of it returns None and every later update of it raises KeyError.  (A
\* deleted id is dead, and a dead id is dead and gone after every step.)
C24_DeletedStaysDeleted ==
    [][ \A tx_id \in 1..MaxIds :
            /\ Deleted(tx_id) => Dead(tx_id)
            /\ Dead(tx_id) => Gone(tx_id) /\ Dead(tx_id)' /\ Gone(tx_id)' ]_vars

\* an update of an id that was issued and is no longer in the file raised
\* KeyError while another record is stored
C24_Witness ==
    \E p \in Procs :
        /\ Ended(p, "update")
        /\ call[p].tx_id \in 1..(nextId - 1)
        /\ call[p].tx_id \notin Ids(read_all(file))
        /\ ret[p].kind = "KeyError"
        /\ read_all(file) # <<>>

\* C26: a delete that returns has returned True exactly when the id was in
\* the file; the records read back are then those read before the call, in
\* their order, without the record of that id, and a get of the id finds none.
C26_DeleteRemovesOnlyThatRecord ==
    \A p \in Procs :
        Ended(p, "delete") /\ ret[p].kind = "ok" =>
            LET before == read_all(pre[p])
                other(tx) == tx.id # call[p].tx_id
            IN  /\ ret[p].flag <=> ~AbsentId(p)
                /\ read_all(file) = SelectSeq(before, other)
                /\ find(read_all(file), call[p].tx_id) = NoTx

\* the first of two stored records was deleted and the second remains
C26_Witness ==
    \E p \in Procs :
        /\ Ended(p, "delete")
        /\ ret[p].flag
        /\ Len(read_all(pre[p])) = 2
        /\ read_all(pre[p])[1].id = call[p].tx_id
        /\ Len(read_all(file)) = 1

\* the id of the record p's mutation is about
Target(p) == IF call[p].op = "create" THEN ret[p].tx.id ELSE call[p].tx_id

\* C29: when a create, an update or a delete has returned, the records other
\* than the one it is about are in the file with the field values and in the
\* order they had before; a create has put its record last and an update has
\* left its record at the position it had.
C29_OtherRecordsKept ==
    \A p \in Procs :
        pc[p] = "done" /\ call[p].op \in Mutations /\ ret[p].kind = "ok" =>
            LET before == read_all(pre[p])
                after == read_all(file)
                other(tx) == tx.id # Target(p)
            IN  /\ SelectSeq(after, other) = SelectSeq(before, other)
                /\ call[p].op = "create" =>
                        /\ Len(after) = Len(before) + 1
                        /\ after[Len(after)].id = Target(p)
                /\ call[p].op = "update" =>
                        /\ Len(after) = Len(before)
                        /\ IndexOf(after, Target(p)) = IndexOf(before, Target(p))

\* the first of two stored records was updated and is still the first
C29_Witness ==
    \E p \in Procs :
        /\ Ended(p, "update")
        /\ ret[p].kind = "ok"
        /\ Len(read_all(file)) = 2
        /\ read_all(file)[1].id = call[p].tx_id
        /\ read_all(file)[1] # read_all(pre[p])[1]

\* the sum, in thousandths, of the amounts of txs that are numbers above zero
\* (sign FALSE) or below zero (sign TRUE), each taken without its sign
RECURSIVE SumOf(_, _)
SumOf(txs, sign) ==
    IF txs = <<>> THEN 0
    ELSE LET amt == Head(txs).amount
         IN  (IF amt.t = "num" /\ amt.neg = sign THEN amt.m ELSE 0)
                 + SumOf(Tail(txs), sign)

\* C27: whatever was created, updated and deleted before, get_totals returns,
\* with income the sum of the amounts above zero of the stored records,
\* expenses the sum of the absolute values of the amounts below zero, and net
\* their difference.
C27_TotalsAreTheSums ==
    \A p \in Procs :
        Ended(p, "totals") =>
            LET t == totals(rows[p])
            IN  /\ ret[p].kind = "ok"
                /\ rows[p] = read_all(file)
                /\ t.income = SumOf(read_all(file), FALSE)
                /\ t.expenses = SumOf(read_all(file), TRUE)
                /\ t.net = t.income - t.expenses

\* C25: with two processes mutating the file in any interleaving, the records
\* in the file change only when a process's replace puts its complete record
\* set in the file's place; so the file always holds the set of the replace
\* that came last, never a mix, and the last writer wins.
C25_OnlyReplaceChangesRecords ==
    [][ read_all(file') # read_all(file) =>
            \E p \in Procs :
                /\ pc[p] = "w_rows" /\ pc'[p] = "done"
                /\ read_all(file') = read_all(File(TRUE, TRUE, CsvRows(rows[p]))) ]_vars

\* C30: whenever no bootstrap of the registry is under way, one that was
\* interrupted and followed by a new start of the program included, the
\* registry file is absent or holds every default entry, Other of both types
\* among them.
C30_RegistryAbsentOrComplete ==
    (\A p \in Procs : pc[p] = "idle") =>
        \/ ~catfile.exists
        \/ LET reg == read_categories(catfile)
           IN  \A i \in 1..Len(defaults) : \E j \in 1..Len(reg) : reg[j] = defaults[i]
=============================================================================
